---- MODULE Spec2Model ----
(***************************************************************************)
(* FixtureGenerator: the DrawStage component (bracket draw engine and its  *)
(* pacing interval), the LotteryMachine effects that consume its props,    *)
(* and React's update queue / commit / passive-effect phases between them. *)
(*                                                                         *)
(* A Player is identified by its assigned number (unique, 1..N); the null  *)
(* of `Player | null` and `number | null` is NULL.                         *)
(*                                                                         *)
(* Time is abstracted to one fact: the interval period (DRAW_INTERVAL_MS)  *)
(* is long against React's render/commit/effect latency, so a period       *)
(* elapses (Elapse) only while React has no queued update and no pending   *)
(* passive effect.  A click is a discrete event: React renders its update, *)
(* commits it and runs its passive effects before the click's task ends.   *)
(***************************************************************************)
EXTENDS Integers, Sequences, FiniteSets, TLC

\* Largest number of entrants handed to the draw stage.
MaxN == 7
\* Largest number of direct drawPlayer calls made on an empty pool.
MaxEmptyDraws == 2

\* `null` of Player | null and number | null.
NULL == 0

\* The useMemo of DrawStage before its first render.
NoPlan == -1

\* exitedWith while no exit has taken place since the last entry.
NoExit == [exited |-> FALSE, armed |-> FALSE, due |-> FALSE, drawing |-> FALSE]

\* lastStep before the first engine update.
NoStep ==
    [stepped |-> FALSE, flag |-> FALSE, gravityY |-> 1, handler |-> FALSE, attracted |-> {},
     bodies |-> {}]

VARIABLES
    initialPlayers,    \* prop: the entrant list, ordered by number
    remainingPlayers,  \* useState<Player[]>(initialPlayers)
    fixtures,          \* useState<Fixture[]>([]), most recent first
    currentHome,       \* useState<Player | null>(null)
    lastDrawnNumber,   \* useState<number | null>(null)
    isDrawing,         \* useState(false)
    drawHistory,       \* useState<string[]>([]), most recent first
    pending,           \* React: state updates queued and not yet rendered
    effects,           \* React: passive effects of the last commit not yet run
    timers,            \* armed intervals, each the drawPlayer closure it calls
    dueTimers,         \* armed intervals whose period has elapsed
    interval,          \* `interval` of the last run of the interval effect
    bodiesRef,         \* LotteryMachine: keys of bodiesRef.current
    worldBodies,       \* LotteryMachine: ball labels in engine.world
    gravityY,          \* LotteryMachine: engine.world.gravity.y
    isDrawingRef,      \* LotteryMachine: isDrawingRef.current
    drawLog,           \* history: numbers drawn by drawPlayer, in call order
    ejectLog,          \* history: body numbers removed from the world, in order
    ticksQueued,       \* history: ticks whose setter calls are still queued
    ticksCommitted,    \* history: ticks committed whose effects have not run
    emptyDraws,        \* history: drawPlayer calls that found the pool empty
    plan,              \* DrawStage: the useMemo result, NoPlan before the first render
    stage,             \* App: useState<AppStage>(AppStage.INPUT)
    players,           \* App: useState<Player[]>([])
    inputText,         \* InputStage: the textarea's text, as its lines
    assignedPlayers,   \* InputStage: useState<Player[]>([])
    step,              \* InputStage: useState<1 | 2>(1)
    alerted,           \* history: some handleProcess call ended in the alert
    exitedWith,        \* history: what was scheduled when the draw stage was last exited
    runnerOn,          \* LotteryMachine: the Matter runner is running
    rafPending,        \* LotteryMachine: an animation frame is requested for render
    lastStep,          \* history: what the last engine update applied
    painted            \* history: the ball labels painted by the last frame

drawState == <<remainingPlayers, fixtures, currentHome, lastDrawnNumber, drawHistory>>
reactVars == <<pending, effects>>
timerVars == <<timers, dueTimers, interval>>
machineVars == <<bodiesRef, worldBodies, gravityY, isDrawingRef>>
historyVars == <<drawLog, ejectLog, ticksQueued, ticksCommitted, emptyDraws>>
inputVars == <<inputText, assignedPlayers, step, alerted>>
appVars == <<stage, players, inputVars, exitedWith>>
loopVars == <<runnerOn, rafPending, lastStep, painted>>
extraVars == <<plan, appVars, loopVars>>
vars == <<initialPlayers, drawState, isDrawing, reactVars, timerVars, machineVars, historyVars,
          extraVars>>

----------------------------------------------------------------------------
\* Helpers

Range(s) == {s[i] : i \in 1..Len(s)}

\* Array.prototype.splice(index, 1) on a copy; index is 0-based.
SpliceOut(arr, index) ==
    SubSeq(arr, 1, index) \o SubSeq(arr, index + 2, Len(arr))

RECURSIVE Pow2(_)
Pow2(k) == IF k = 0 THEN 1 ELSE 2 * Pow2(k - 1)

\* Math.ceil(Math.log2(n)) for n >= 1: the least k with 2^k >= n.
RECURSIVE CeilLog2From(_, _)
CeilLog2From(n, k) == IF Pow2(k) >= n THEN k ELSE CeilLog2From(n, k + 1)
CeilLog2(n) == CeilLog2From(n, 0)

\* The least power of two strictly above n.
NextPowerOf2Above(n) == Pow2(CeilLog2(n + 1))

\* Math.pow(2, Math.ceil(Math.log2(n))): the least power of two >= n.
NextPowerOf2(n) == Pow2(CeilLog2(n))

ByesNeeded(totalPlayers) == NextPowerOf2(totalPlayers) - totalPlayers

\* nextPowerOf2 taken one power too high (floor(log2) + 1 instead of ceil).
MatchesNeededFloorPlusOne(totalPlayers) ==
    IF totalPlayers < 2 THEN 0
    ELSE LET np == IF Pow2(CeilLog2(totalPlayers)) = totalPlayers
                   THEN 2 * totalPlayers ELSE NextPowerOf2(totalPlayers)
         IN  (totalPlayers - (np - totalPlayers)) \div 2

\* Every pair of entrants plays: floor(N / 2) matches, byes ignored.
MatchesNeededHalf(totalPlayers) ==
    IF totalPlayers < 2 THEN 0 ELSE totalPlayers \div 2

\* useMemo: matchesNeeded from totalPlayers.
MatchesNeeded(totalPlayers) ==
    IF totalPlayers < 2 THEN 0
    ELSE (totalPlayers - ByesNeeded(totalPlayers)) \div 2

totalPlayers == Len(initialPlayers)
matchesNeeded == MatchesNeeded(totalPlayers)

\* A count of the matches created since the most recent bye only.
RECURSIVE MatchesSinceBye(_)
MatchesSinceBye(fix) ==
    IF fix = <<>> \/ Head(fix).away = NULL THEN 0 ELSE 1 + MatchesSinceBye(Tail(fix))

\* fixtures.filter(f => f.away !== null).length
MatchesSoFar(fix) == Cardinality({i \in 1..Len(fix) : fix[i].away # NULL})
ByesSoFar(fix) == Cardinality({i \in 1..Len(fix) : fix[i].away = NULL})

----------------------------------------------------------------------------
\* React state updates: a queued setter call, applied at the next render.

SetState(name, value) == [set |-> name, val |-> value]

\* Functional updates that put the new element at the end of the list.
ApplyUpdateAppends(st, u) ==
    CASE u.set = "remainingPlayers" -> [st EXCEPT !.remainingPlayers = u.val]
      [] u.set = "lastDrawnNumber"  -> [st EXCEPT !.lastDrawnNumber = u.val]
      [] u.set = "currentHome"      -> [st EXCEPT !.currentHome = u.val]
      [] u.set = "isDrawing"        -> [st EXCEPT !.isDrawing = u.val]
      [] u.set = "fixtures"         -> [st EXCEPT !.fixtures = @ \o <<u.val>>]
      [] u.set = "drawHistory"      -> [st EXCEPT !.drawHistory = @ \o <<u.val>>]

\* One queued useState update applied to the state st.
ApplyUpdate(st, u) ==
    CASE u.set = "remainingPlayers" -> [st EXCEPT !.remainingPlayers = u.val]
      [] u.set = "lastDrawnNumber"  -> [st EXCEPT !.lastDrawnNumber = u.val]
      [] u.set = "currentHome"      -> [st EXCEPT !.currentHome = u.val]
      [] u.set = "isDrawing"        -> [st EXCEPT !.isDrawing = u.val]
      \* functional updates: prev => [x, ...prev]
      [] u.set = "fixtures"         -> [st EXCEPT !.fixtures = <<u.val>> \o @]
      [] u.set = "drawHistory"      -> [st EXCEPT !.drawHistory = <<u.val>> \o @]

RECURSIVE ApplyAll(_, _)
ApplyAll(st, q) ==
    IF q = <<>> THEN st ELSE ApplyAll(ApplyUpdate(st, Head(q)), Tail(q))

Committed ==
    [remainingPlayers |-> remainingPlayers, fixtures |-> fixtures,
     currentHome |-> currentHome, lastDrawnNumber |-> lastDrawnNumber,
     isDrawing |-> isDrawing, drawHistory |-> drawHistory]

----------------------------------------------------------------------------
\* drawPlayer

\* A random index that is always the first storage position.
RandomIndexesFirst(arr) == {0}

\* Math.floor(Math.random() * length)
RandomIndexes(arr) == IF arr = <<>> THEN {0} ELSE 0..(Len(arr) - 1)

\* Routing with the quota test off by one (<= instead of <).
RouteQuotaOffByOne(fix, home, needed, drawn) ==
    IF MatchesSoFar(fix) <= needed
    THEN IF home # NULL
         THEN <<SetState("fixtures", [home |-> home, away |-> drawn]),
                SetState("drawHistory", [kind |-> "vs", drawn |-> drawn, home |-> home]),
                SetState("currentHome", NULL)>>
         ELSE <<SetState("currentHome", drawn),
                SetState("drawHistory", [kind |-> "home", drawn |-> drawn, home |-> NULL])>>
    ELSE <<SetState("fixtures", [home |-> drawn, away |-> NULL]),
           SetState("drawHistory", [kind |-> "bye", drawn |-> drawn, home |-> NULL])>>

\* Routing that pairs entrants whatever the quota: no bye phase.
RouteAlwaysPairs(fix, home, needed, drawn) ==
    IF home # NULL
    THEN <<SetState("fixtures", [home |-> home, away |-> drawn]),
           SetState("drawHistory", [kind |-> "vs", drawn |-> drawn, home |-> home]),
           SetState("currentHome", NULL)>>
    ELSE <<SetState("currentHome", drawn),
           SetState("drawHistory", [kind |-> "home", drawn |-> drawn, home |-> NULL])>>

\* Routing that forgets setCurrentHome(null) once the pair is formed.
RouteKeepsHome(fix, home, needed, drawn) ==
    IF MatchesSoFar(fix) < needed
    THEN IF home # NULL
         THEN <<SetState("fixtures", [home |-> home, away |-> drawn]),
                SetState("drawHistory", [kind |-> "vs", drawn |-> drawn, home |-> home])>>
         ELSE <<SetState("currentHome", drawn),
                SetState("drawHistory", [kind |-> "home", drawn |-> drawn, home |-> NULL])>>
    ELSE <<SetState("fixtures", [home |-> drawn, away |-> NULL]),
           SetState("drawHistory", [kind |-> "bye", drawn |-> drawn, home |-> NULL])>>

\* "Determine Fixture Type": the setter calls drawPlayer makes for the drawn
\* player, given the fixtures and currentHome of its closure.
Route(fix, home, needed, drawn) ==
    IF MatchesSoFar(fix) < needed
    THEN IF home # NULL
         THEN <<SetState("fixtures", [home |-> home, away |-> drawn]),
                SetState("drawHistory", [kind |-> "vs", drawn |-> drawn, home |-> home]),
                SetState("currentHome", NULL)>>
         ELSE <<SetState("currentHome", drawn),
                SetState("drawHistory", [kind |-> "home", drawn |-> drawn, home |-> NULL])>>
    ELSE <<SetState("fixtures", [home |-> drawn, away |-> NULL]),
           SetState("drawHistory", [kind |-> "bye", drawn |-> drawn, home |-> NULL])>>

\* drawPlayer without the finished signal on an empty pool.
DrawPlayerNoSignal(rem, fix, home, needed, randomIndex) ==
    IF Len(rem) = 0 THEN <<>>
    ELSE
        LET drawn == rem[randomIndex + 1]
            newRemaining == SpliceOut(rem, randomIndex)
        IN  <<SetState("remainingPlayers", newRemaining),
              SetState("lastDrawnNumber", drawn)>> \o Route(fix, home, needed, drawn)

\* drawPlayer that splices at index 0 whatever was drawn.
DrawPlayerWrongSplice(rem, fix, home, needed, randomIndex) ==
    IF Len(rem) = 0 THEN <<SetState("isDrawing", FALSE)>>
    ELSE
        LET drawn == rem[randomIndex + 1]
            newRemaining == SpliceOut(rem, 0)
        IN  <<SetState("remainingPlayers", newRemaining),
              SetState("lastDrawnNumber", drawn)>> \o Route(fix, home, needed, drawn)

\* drawPlayer on the closure (rem, fix, home, needed) with Math.random giving
\* randomIndex: the setter calls it makes, in order.
DrawPlayer(rem, fix, home, needed, randomIndex) ==
    IF Len(rem) = 0 THEN <<SetState("isDrawing", FALSE)>>
    ELSE
        LET drawn == rem[randomIndex + 1]
            newRemaining == SpliceOut(rem, randomIndex)
        IN  <<SetState("remainingPlayers", newRemaining),
              SetState("lastDrawnNumber", drawn)>> \o Route(fix, home, needed, drawn)

\* The drawPlayer of the current render: its useCallback closure.
Closure == [rem |-> remainingPlayers, fix |-> fixtures, home |-> currentHome]

----------------------------------------------------------------------------
\* Passive effects

\* Cleanup that does not clear the interval it armed.
IntervalCleanupLeak(armed, handle) == armed

\* Cleanup of the interval effect: clearInterval(interval).
IntervalCleanup(armed, handle) == armed \ handle

\* Interval effect that arms the interval whether or not drawing is active.
IntervalEffectAlwaysArms(drawing, rem, callback) ==
    IF Len(rem) > 0
    THEN [interval |-> {callback}, updates |-> <<>>]
    ELSE [interval |-> {}, updates |-> <<SetState("isDrawing", FALSE)>>]

\* Interval effect without the auto-stop branch.
IntervalEffectNoStop(drawing, rem, callback) ==
    IF drawing /\ Len(rem) > 0
    THEN [interval |-> {callback}, updates |-> <<>>]
    ELSE [interval |-> {}, updates |-> <<>>]

\* Body of the interval effect for the render (drawing, rem) whose drawPlayer
\* is callback: the interval it arms and the setter calls it makes.
IntervalEffect(drawing, rem, callback) ==
    IF drawing /\ Len(rem) > 0
    THEN [interval |-> {callback}, updates |-> <<>>]
    ELSE IF Len(rem) = 0
         THEN [interval |-> {}, updates |-> <<SetState("isDrawing", FALSE)>>]
         ELSE [interval |-> {}, updates |-> <<>>]

\* Ejection effect without the `if (body)` guard: World.remove is called with
\* whatever the map lookup returned.
EjectUnguarded(bodies, world, drawnNumber) ==
    IF drawnNumber # NULL
    THEN [bodiesRef |-> bodies \ {drawnNumber}, worldBodies |-> world \ {drawnNumber},
          removed |-> <<drawnNumber>>]
    ELSE [bodiesRef |-> bodies, worldBodies |-> world, removed |-> <<>>]

\* Ejection effect that removes the body from the world but keeps its map entry.
EjectKeepsMapEntry(bodies, world, drawnNumber) ==
    IF drawnNumber # NULL /\ drawnNumber \in bodies
    THEN [bodiesRef |-> bodies, worldBodies |-> world \ {drawnNumber},
          removed |-> <<drawnNumber>>]
    ELSE [bodiesRef |-> bodies, worldBodies |-> world, removed |-> <<>>]

\* Ejection effect that forgets the body in the map but leaves it in the world.
EjectSkipsWorld(bodies, world, drawnNumber) ==
    IF drawnNumber # NULL /\ drawnNumber \in bodies
    THEN [bodiesRef |-> bodies \ {drawnNumber}, worldBodies |-> world, removed |-> <<>>]
    ELSE [bodiesRef |-> bodies, worldBodies |-> world, removed |-> <<>>]

\* "Handle Ejection": bodies is bodiesRef.current's key set, world the balls of
\* engine.world; removed lists the bodies taken out of the world.
Eject(bodies, world, drawnNumber) ==
    IF drawnNumber # NULL /\ drawnNumber \in bodies
    THEN [bodiesRef |-> bodies \ {drawnNumber}, worldBodies |-> world \ {drawnNumber},
          removed |-> <<drawnNumber>>]
    ELSE [bodiesRef |-> bodies, worldBodies |-> world, removed |-> <<>>]

\* Sync effect that sets the engine's gravity and never updates the ref.
SyncEffectRefStale(drawing, gravity) ==
    [isDrawingRef |-> FALSE, gravityY |-> IF drawing THEN 0 ELSE 1]

\* Sync effect that updates the ref and leaves the engine's gravity as it is.
SyncEffectKeepsGravity(drawing, gravity) == [isDrawingRef |-> drawing, gravityY |-> gravity]

\* Body of the isDrawing sync effect: the ref and the engine's gravity.y.
SyncEffect(drawing, gravity) ==
    [isDrawingRef |-> drawing, gravityY |-> IF drawing THEN 0 ELSE 1]

\* The effects whose dependencies differ between two renders.
EffectsOf(old, new) ==
    (IF old.isDrawing # new.isDrawing THEN {"sync"} ELSE {}) \cup
    (IF old.lastDrawnNumber # new.lastDrawnNumber THEN {"eject"} ELSE {}) \cup
    (IF \/ old.isDrawing # new.isDrawing
        \/ old.remainingPlayers # new.remainingPlayers
        \/ old.fixtures # new.fixtures
        \/ old.currentHome # new.currentHome
     THEN {"interval"} ELSE {})

\* React's passive-effect flush for the committed render st: every cleanup
\* first, then the effect bodies, LotteryMachine's before DrawStage's.
Flush(effs, st) ==
    LET cleared == IF "interval" \in effs THEN IntervalCleanup(timers, interval) ELSE timers
        clearedDue == dueTimers \cap cleared
        ej == IF "eject" \in effs
              THEN Eject(bodiesRef, worldBodies, st.lastDrawnNumber)
              ELSE [bodiesRef |-> bodiesRef, worldBodies |-> worldBodies, removed |-> <<>>]
        ie == IF "interval" \in effs
              THEN IntervalEffect(st.isDrawing, st.remainingPlayers,
                                  [rem |-> st.remainingPlayers, fix |-> st.fixtures,
                                   home |-> st.currentHome])
              ELSE [interval |-> interval, updates |-> <<>>]
    IN  /\ timers' = cleared \cup (IF "interval" \in effs THEN ie.interval ELSE {})
        /\ dueTimers' = clearedDue
        /\ interval' = ie.interval
        /\ isDrawingRef' = IF "sync" \in effs
                           THEN SyncEffect(st.isDrawing, gravityY).isDrawingRef
                           ELSE isDrawingRef
        /\ gravityY' = IF "sync" \in effs
                       THEN SyncEffect(st.isDrawing, gravityY).gravityY
                       ELSE gravityY
        /\ bodiesRef' = ej.bodiesRef
        /\ worldBodies' = ej.worldBodies
        /\ ejectLog' = ejectLog \o ej.removed
        /\ pending' = pending \o ie.updates
        /\ effects' = {}

----------------------------------------------------------------------------
\* A Player of types.ts; the id is left out, nothing reads it.
Player(name, number) == [name |-> name, number |-> number]

\* The entry numbers of a Player[]; the draw stage's state holds entrants by
\* their number.
Numbers(ps) == [i \in 1..Len(ps) |-> ps[i].number]

\* A name for entrants whose name plays no part.
AnyName == <<"a">>

\* The entrants numbered 1..n in ascending order.
Entrants(n) == [i \in 1..n |-> Player(AnyName, i)]

\* DrawStage and LotteryMachine just mounted with the entrants ps: the initial
\* useState values, the effects of the first commit already run.
DrawStageMounted(ps) ==
    /\ initialPlayers = Numbers(ps)
    /\ remainingPlayers = initialPlayers
    /\ fixtures = <<>>
    /\ currentHome = NULL
    /\ lastDrawnNumber = NULL
    /\ isDrawing = FALSE
    /\ drawHistory = <<>>
    /\ pending = <<>>
    /\ effects = {}
    /\ timers = {}
    /\ dueTimers = {}
    /\ interval = {}
    /\ bodiesRef = Range(initialPlayers)
    /\ worldBodies = Range(initialPlayers)
    /\ gravityY = 1
    /\ isDrawingRef = FALSE
    /\ drawLog = <<>>
    /\ ejectLog = <<>>
    /\ ticksQueued = 0
    /\ ticksCommitted = 0
    /\ emptyDraws = 0
    /\ plan = MatchesNeeded(Len(initialPlayers))
    /\ stage = "DRAW"
    /\ players = ps
    /\ inputText = <<>>
    /\ assignedPlayers = <<>>
    /\ step = 1
    /\ alerted = FALSE
    /\ exitedWith = NoExit
    /\ runnerOn = TRUE
    /\ rafPending = TRUE
    /\ lastStep = NoStep
    /\ painted = Range(initialPlayers)

Init == \E n \in 2..MaxN : DrawStageMounted(Entrants(n))


----------------------------------------------------------------------------
\* Actions

\* One period of DRAW_INTERVAL_MS passes: every armed interval becomes due.
Elapse ==
    /\ pending = <<>> /\ effects = {}
    /\ timers # {} /\ dueTimers # timers
    /\ dueTimers' = timers
    /\ UNCHANGED <<initialPlayers, drawState, isDrawing, reactVars, timers, interval,
                   machineVars, historyVars, extraVars>>

\* A due interval calls its drawPlayer; the setter calls are queued.
Tick ==
    \E t \in dueTimers : \E randomIndex \in RandomIndexes(t.rem) :
        /\ pending' = IF stage = "DRAW"
                       THEN pending \o DrawPlayer(t.rem, t.fix, t.home, matchesNeeded, randomIndex)
                       ELSE pending
        /\ dueTimers' = dueTimers \ {t}
        /\ drawLog' = IF t.rem = <<>> THEN drawLog ELSE Append(drawLog, t.rem[randomIndex + 1])
        /\ emptyDraws' = IF t.rem = <<>> THEN emptyDraws + 1 ELSE emptyDraws
        /\ ticksQueued' = ticksQueued + 1
        /\ UNCHANGED <<initialPlayers, drawState, isDrawing, effects, timers, interval,
                       machineVars, ejectLog, ticksCommitted, extraVars>>

\* React renders the queued updates and commits the result.
Commit ==
    /\ pending # <<>> /\ effects = {}
    /\ LET st == ApplyAll(Committed, pending)
       IN  /\ remainingPlayers' = st.remainingPlayers
           /\ fixtures' = st.fixtures
           /\ currentHome' = st.currentHome
           /\ lastDrawnNumber' = st.lastDrawnNumber
           /\ isDrawing' = st.isDrawing
           /\ drawHistory' = st.drawHistory
           /\ effects' = EffectsOf(Committed, st)
    /\ pending' = <<>>
    /\ ticksCommitted' = IF effects' = {} THEN 0 ELSE ticksCommitted + ticksQueued
    /\ ticksQueued' = 0
    /\ UNCHANGED <<initialPlayers, timerVars, machineVars, drawLog, ejectLog, emptyDraws,
                   extraVars>>

\* React runs the passive effects of the last commit.
FlushEffects ==
    /\ effects # {}
    /\ Flush(effects, Committed)
    /\ ticksCommitted' = 0
    /\ UNCHANGED <<initialPlayers, drawState, isDrawing, drawLog, ticksQueued, emptyDraws,
                   extraVars>>

\* toggleDraw without the test for a non-empty pool.
ToggleDrawUnguarded ==
    /\ stage = "DRAW"
    /\ pending = <<>> /\ effects = {}
    /\ LET st == ApplyAll(Committed, <<SetState("isDrawing", ~isDrawing)>>)
       IN  /\ isDrawing' = st.isDrawing
           /\ Flush(EffectsOf(Committed, st), st)
           /\ UNCHANGED <<initialPlayers, drawState, drawLog, ticksQueued, ticksCommitted,
                          emptyDraws, extraVars>>

\* Click on Start Draw / Pause: toggleDraw, then React's synchronous render,
\* commit and effect flush of the update it made.
ToggleDraw ==
    /\ stage = "DRAW"
    /\ pending = <<>> /\ effects = {}
    /\ IF Len(remainingPlayers) > 0
       THEN LET st == ApplyAll(Committed, <<SetState("isDrawing", ~isDrawing)>>)
            IN  /\ isDrawing' = st.isDrawing
                /\ Flush(EffectsOf(Committed, st), st)
                /\ UNCHANGED <<initialPlayers, drawState, drawLog, ticksQueued, ticksCommitted,
                               emptyDraws, extraVars>>
       ELSE UNCHANGED vars

Next == ToggleDraw \/ Elapse \/ Tick \/ Commit \/ FlushEffects

Spec == Init /\ [][Next]_vars

\* The pacing timer left running: drawing is started and never paused, and
\* the browser and React keep running what they have scheduled.
StartDraw == ~isDrawing /\ ToggleDraw

LiveNext == StartDraw \/ Elapse \/ Tick \/ Commit \/ FlushEffects

LiveSpec ==
    /\ Init /\ [][LiveNext]_vars
    /\ WF_vars(Elapse) /\ WF_vars(Tick) /\ WF_vars(Commit) /\ WF_vars(FlushEffects)

\* The draw engine alone: drawPlayer and the flag called directly, each call
\* rendered at once, with no interval and no LotteryMachine.
EngineDrawNext ==
    /\ Len(remainingPlayers) > 0 \/ emptyDraws < MaxEmptyDraws
    /\ \E randomIndex \in RandomIndexes(remainingPlayers) :
        LET st == ApplyAll(Committed, DrawPlayer(remainingPlayers, fixtures, currentHome,
                                                 matchesNeeded, randomIndex))
        IN  /\ remainingPlayers' = st.remainingPlayers
            /\ fixtures' = st.fixtures
            /\ currentHome' = st.currentHome
            /\ lastDrawnNumber' = st.lastDrawnNumber
            /\ isDrawing' = st.isDrawing
            /\ drawHistory' = st.drawHistory
            /\ drawLog' = IF remainingPlayers = <<>> THEN drawLog
                          ELSE Append(drawLog, remainingPlayers[randomIndex + 1])
            /\ emptyDraws' = IF remainingPlayers = <<>> THEN emptyDraws + 1 ELSE emptyDraws
    /\ UNCHANGED <<initialPlayers, reactVars, timerVars, machineVars, ejectLog,
                   ticksQueued, ticksCommitted, extraVars>>

EngineToggle ==
    /\ Len(remainingPlayers) > 0
    /\ isDrawing' = ~isDrawing
    /\ UNCHANGED <<initialPlayers, drawState, reactVars, timerVars, machineVars, historyVars,
                   extraVars>>

EngineNext == EngineDrawNext \/ EngineToggle

EngineSpec == Init /\ [][EngineNext]_vars

----------------------------------------------------------------------------
\* Properties

\* Every draw made so far is committed.
DrawsCommitted == Len(remainingPlayers) + Len(drawLog) = totalPlayers

\* The entry numbers in fixture slots, one per occupied slot, in list order.
RECURSIVE Slots(_)
Slots(fix) ==
    IF fix = <<>> THEN <<>>
    ELSE (IF Head(fix).away = NULL THEN <<Head(fix).home>>
          ELSE <<Head(fix).home, Head(fix).away>>) \o Slots(Tail(fix))

IsPowerOfTwo(n) == \E k \in 0..n : Pow2(k) = n

\* C1. Conservation: in every reachable state the remaining pool, the pending
\* home (if any), two entrants per match fixture and one per bye fixture add
\* up to the number of entrants N.
C1_Conservation ==
    Len(remainingPlayers) + (IF currentHome # NULL THEN 1 ELSE 0)
        + 2 * MatchesSoFar(fixtures) + ByesSoFar(fixtures) = totalPlayers

C1_Witness ==
    /\ MatchesSoFar(fixtures) >= 2 /\ ByesSoFar(fixtures) >= 1
    /\ Len(remainingPlayers) >= 1

\* C2. Routing of one draw: below the match quota with a home waiting, the new
\* fixture (home = waiting, away = drawn) heads the list and the waiting home is
\* cleared; below the quota with nobody waiting, the drawn player becomes the
\* waiting home and no fixture is made; at the quota, a bye fixture for the
\* drawn player heads the list and the waiting home is untouched.  With five
\* entrants drawn in the order 3, 1, 5, 2, 4 (C, A, E, B, D): 3 waits, then
\* fixture (3, 1), then byes for 5, 2 and 4.
C2_ScenarioExpected(k) ==
    CASE k = 0 -> [fixtures |-> <<>>, currentHome |-> NULL]
      [] k = 1 -> [fixtures |-> <<>>, currentHome |-> 3]
      [] k = 2 -> [fixtures |-> <<[home |-> 3, away |-> 1]>>, currentHome |-> NULL]
      [] k = 3 -> [fixtures |-> <<[home |-> 5, away |-> NULL], [home |-> 3, away |-> 1]>>,
                   currentHome |-> NULL]
      [] k = 4 -> [fixtures |-> <<[home |-> 2, away |-> NULL], [home |-> 5, away |-> NULL],
                                  [home |-> 3, away |-> 1]>>,
                   currentHome |-> NULL]
      [] k = 5 -> [fixtures |-> <<[home |-> 4, away |-> NULL], [home |-> 2, away |-> NULL],
                                  [home |-> 5, away |-> NULL], [home |-> 3, away |-> 1]>>,
                   currentHome |-> NULL]

C2_Scenario ==
    (/\ totalPlayers = 5 /\ DrawsCommitted
     /\ drawLog = SubSeq(<<3, 1, 5, 2, 4>>, 1, Len(drawLog)))
        => /\ fixtures = C2_ScenarioExpected(Len(drawLog)).fixtures
           /\ currentHome = C2_ScenarioExpected(Len(drawLog)).currentHome

C2_Step ==
    Len(remainingPlayers') < Len(remainingPlayers) =>
        LET drawn == lastDrawnNumber'
        IN  /\ drawn \in Range(remainingPlayers)
            /\ IF MatchesSoFar(fixtures) < matchesNeeded
               THEN IF currentHome # NULL
                    THEN /\ fixtures' = <<[home |-> currentHome, away |-> drawn]>> \o fixtures
                         /\ currentHome' = NULL
                    ELSE /\ fixtures' = fixtures
                         /\ currentHome' = drawn
               ELSE /\ fixtures' = <<[home |-> drawn, away |-> NULL]>> \o fixtures
                    /\ currentHome' = currentHome

C2_Routing == [][C2_Step]_vars /\ []C2_Scenario

C2_Witness ==
    /\ totalPlayers = 5 /\ drawLog = <<3, 1, 5, 2, 4>> /\ remainingPlayers = <<>>
    /\ Len(fixtures) = 4

\* C3. Final outcome: once the pool is empty there are exactly matchesNeeded
\* fixtures with an away player, exactly nextPowerOfTwo(N) - N byes, and no
\* home player is left waiting.
C3_FinalOutcome ==
    remainingPlayers = <<>> =>
        /\ MatchesSoFar(fixtures) = matchesNeeded
        /\ ByesSoFar(fixtures) = NextPowerOf2(totalPlayers) - totalPlayers
        /\ currentHome = NULL

C3_Witness ==
    /\ remainingPlayers = <<>> /\ totalPlayers = 6
    /\ MatchesSoFar(fixtures) = 2 /\ ByesSoFar(fixtures) = 2

\* C4. Disjointness: no entry number fills two fixture slots, and no player of
\* the remaining pool is in a fixture or waiting as home.
C4_Disjoint ==
    /\ Cardinality(Range(Slots(fixtures))) = Len(Slots(fixtures))
    /\ Range(remainingPlayers) \cap Range(Slots(fixtures)) = {}
    /\ currentHome \notin Range(remainingPlayers)
    /\ Cardinality(Range(remainingPlayers)) = Len(remainingPlayers)

C4_Witness ==
    /\ Len(Slots(fixtures)) >= 3 /\ Len(remainingPlayers) >= 2 /\ currentHome # NULL

\* C5. Match quota: the number of fixtures with an away player never exceeds
\* matchesNeeded.
C5_MatchQuota == MatchesSoFar(fixtures) <= matchesNeeded

C5_Witness ==
    /\ MatchesSoFar(fixtures) = matchesNeeded /\ ByesSoFar(fixtures) >= 2
    /\ matchesNeeded >= 1

\* C10. With a power-of-two number of entrants no bye fixture is ever created.
C10_NoByeWhenPowerOfTwo ==
    IsPowerOfTwo(totalPlayers) => ByesSoFar(fixtures) = 0

C10_Witness ==
    /\ totalPlayers = 4 /\ remainingPlayers = <<>> /\ Len(fixtures) = 2

\* C6. Ticks do not overlap: at most one tick is between its call and the run
\* of its effects, and meanwhile no interval is due; at most one interval is
\* armed, and a due interval calls the drawPlayer of the current render; each
\* tick makes one draw, from the committed pool, after every earlier draw was
\* committed and its body ejected.
C6_OneInFlight ==
    /\ ticksQueued + ticksCommitted <= 1
    /\ (ticksQueued + ticksCommitted = 1 \/ pending # <<>> \/ effects # {}) => dueTimers = {}
    /\ Cardinality(timers) <= 1
    /\ \A t \in dueTimers : t = Closure

C6_TickStep ==
    drawLog' # drawLog =>
        /\ Len(drawLog') = Len(drawLog) + 1
        /\ DrawsCommitted
        /\ ejectLog = drawLog
        /\ drawLog'[Len(drawLog')] \in Range(remainingPlayers)
        /\ ticksQueued = 0 /\ ticksCommitted = 0

C7_Ejected ==
    /\ Len(ejectLog) <= Len(drawLog)
    /\ ejectLog = SubSeq(drawLog, 1, Len(ejectLog))
    /\ Len(drawLog) - Len(ejectLog) <= 1
    /\ (ticksQueued = 0 /\ ticksCommitted = 0) => ejectLog = drawLog
    /\ Cardinality(Range(ejectLog)) = Len(ejectLog)
    /\ worldBodies = Range(initialPlayers) \ Range(ejectLog)
    /\ bodiesRef = worldBodies

C7_EjectMatchesDraw ==
    []C7_Ejected /\ [][drawLog' # drawLog => ejectLog = drawLog]_vars

C7_Witness ==
    /\ Len(ejectLog) >= 3 /\ ejectLog = drawLog /\ Len(remainingPlayers) >= 1
    /\ ejectLog[1] > ejectLog[2]

\* C8. drawPlayer on an empty pool leaves pool, fixtures, waiting home, last
\* drawn number and event log as they were and sets the drawing flag false.
C8_EmptyStep ==
    emptyDraws' # emptyDraws =>
        /\ remainingPlayers = <<>>
        /\ UNCHANGED drawState
        /\ drawLog' = drawLog
        /\ isDrawing' = FALSE

C8_EmptyPoolNoOp == [][C8_EmptyStep]_vars

C8_Witness ==
    /\ emptyDraws >= 1 /\ remainingPlayers = <<>> /\ ~isDrawing
    /\ Len(fixtures) >= 3 /\ lastDrawnNumber # NULL

\* C9. Auto-stop: once drawing is on and is not paused, the run reaches the
\* state where all N entrants have been drawn, the pool is empty, the flag is
\* false and no interval is armed; from there nothing changes any more, and
\* no run ever makes more than N draws.
C9_Finished ==
    /\ remainingPlayers = <<>> /\ Len(drawLog) = totalPlayers
    /\ ~isDrawing /\ timers = {} /\ pending = <<>> /\ effects = {}

C9_AutoStop ==
    /\ isDrawing ~> C9_Finished
    /\ [][C9_Finished => UNCHANGED vars]_vars
    /\ [](Len(drawLog) <= totalPlayers)

C9_Witness == C9_Finished /\ totalPlayers = 5 /\ Len(ejectLog) = 5


----------------------------------------------------------------------------
\* Bracket planner: the useMemo of DrawStage, evaluated on its first render for
\* entrant lists of every length up to MaxPlanN.

MaxPlanN == 64

PlannerInit ==
    /\ \E n \in 0..MaxPlanN : initialPlayers = [i \in 1..n |-> i]
    /\ remainingPlayers = initialPlayers
    /\ fixtures = <<>>
    /\ currentHome = NULL
    /\ lastDrawnNumber = NULL
    /\ isDrawing = FALSE
    /\ drawHistory = <<>>
    /\ pending = <<>>
    /\ effects = {}
    /\ timers = {}
    /\ dueTimers = {}
    /\ interval = {}
    /\ bodiesRef = {}
    /\ worldBodies = {}
    /\ gravityY = 1
    /\ isDrawingRef = FALSE
    /\ drawLog = <<>>
    /\ ejectLog = <<>>
    /\ ticksQueued = 0
    /\ ticksCommitted = 0
    /\ emptyDraws = 0
    /\ plan = NoPlan
    /\ stage = "DRAW"
    /\ players = Entrants(totalPlayers)
    /\ inputText = <<>>
    /\ assignedPlayers = <<>>
    /\ step = 1
    /\ alerted = FALSE
    /\ exitedWith = NoExit
    /\ runnerOn = FALSE
    /\ rafPending = FALSE
    /\ lastStep = NoStep
    /\ painted = {}

\* First render of DrawStage: useMemo computes matchesNeeded.
RenderPlan ==
    /\ plan = NoPlan
    /\ plan' = MatchesNeeded(totalPlayers)
    /\ UNCHANGED <<initialPlayers, drawState, isDrawing, reactVars, timerVars, machineVars,
                   historyVars, appVars, loopVars>>

PlannerNext == RenderPlan

PlannerSpec == PlannerInit /\ [][PlannerNext]_vars

\* n is a power of two, by repeated halving.
RECURSIVE HalvesToOne(_)
HalvesToOne(n) == n = 1 \/ (n > 1 /\ n % 2 = 0 /\ HalvesToOne(n \div 2))

\* p is the least power of two that is >= n (n >= 1).
IsNextPow2(p, n) ==
    /\ HalvesToOne(p)
    /\ p >= n
    /\ \A q \in n..(p - 1) : ~HalvesToOne(q)

\* C11: for every N >= 2 the planned match count is (N - (P - N)) / 2 with P
\* the least power of two >= N, it is a non-negative integer, and twice it plus
\* the byes P - N is N; for N < 2 it is 0; N = 5, 8, 2, 1 give 1, 4, 1, 0.
C11_Planner ==
    plan # NoPlan =>
        LET N == totalPlayers
        IN  /\ N < 2 => plan = 0
            /\ N >= 2 =>
                  \E P \in N..(2 * N) :
                      /\ IsNextPow2(P, N)
                      /\ plan >= 0
                      /\ 2 * plan = N - (P - N)
                      /\ 2 * plan + (P - N) = N
                      /\ ByesNeeded(N) = P - N
            /\ N = 5 => plan = 1
            /\ N = 8 => plan = 4
            /\ N = 2 => plan = 1
            /\ N = 1 => plan = 0

\* A planned bracket with both matches and byes.
C11_Witness == plan # NoPlan /\ totalPlayers = 5 /\ plan = 1


----------------------------------------------------------------------------
\* C12: at stage entry there is one body per entrant, keyed by entry number,
\* and whenever no ejection effect is pending the entry numbers with a body in
\* the world, and those in the body map, are exactly the remaining pool's.
C12_OneBodyPerEntrant ==
    /\ drawLog = <<>> =>
          /\ Range(remainingPlayers) = Range(initialPlayers)
          /\ Cardinality(worldBodies) = totalPlayers
    /\ "eject" \notin effects =>
          /\ worldBodies = Range(remainingPlayers)
          /\ bodiesRef = Range(remainingPlayers)
          /\ Cardinality(worldBodies) = Len(remainingPlayers)

\* Two ejections have run and the pool is not yet empty.
C12_Witness ==
    /\ Len(ejectLog) >= 2
    /\ effects = {} /\ pending = <<>>
    /\ Len(remainingPlayers) > 0
    /\ worldBodies = Range(remainingPlayers)


----------------------------------------------------------------------------
\* LotteryMachine on its own: the parent passes any drawnNumber, including a
\* number already ejected and a number no ball carries.

MaxMachineN == 4

MachineInit == \E n \in 1..MaxMachineN : DrawStageMounted(Entrants(n))

\* A render with a new drawnNumber prop; the ejection effect is then pending.
PropDrawnNumber ==
    /\ effects = {}
    /\ \E d \in 0..(totalPlayers + 1) :
        /\ d # lastDrawnNumber
        /\ lastDrawnNumber' = d
    /\ effects' = {"eject"}
    /\ UNCHANGED <<initialPlayers, remainingPlayers, fixtures, currentHome, drawHistory,
                   isDrawing, pending, timerVars, machineVars, historyVars, extraVars>>

MachineNext == PropDrawnNumber \/ FlushEffects

MachineSpec == MachineInit /\ [][MachineNext]_vars

\* C13: an ejection request for a number with no body (already ejected, or
\* never present) leaves the body map and the world unchanged and removes
\* nothing; a request for an existing body removes that body and no other.
C13_EjectStep ==
    ("eject" \in effects /\ effects' = {}) =>
        IF lastDrawnNumber \in bodiesRef
        THEN /\ bodiesRef' = bodiesRef \ {lastDrawnNumber}
             /\ worldBodies' = worldBodies \ {lastDrawnNumber}
             /\ ejectLog' = Append(ejectLog, lastDrawnNumber)
        ELSE /\ bodiesRef' = bodiesRef
             /\ worldBodies' = worldBodies
             /\ ejectLog' = ejectLog
C13_EjectIdempotent == [][C13_EjectStep]_vars

\* A number ejected earlier has been requested again, after another ejection,
\* and the effect for it has run.
C13_Witness ==
    /\ effects = {}
    /\ lastDrawnNumber # NULL
    /\ lastDrawnNumber \in Range(ejectLog)
    /\ Len(ejectLog) >= 2
    /\ ejectLog[Len(ejectLog)] # lastDrawnNumber


----------------------------------------------------------------------------
\* The whole application: InputStage, the App stage switch, the draw stage and
\* the two animation loops of LotteryMachine.

MaxLines == 3

\* Lines a user can type: empty, blank, a name, a name with spaces around it.
InputLines == {<<>>, <<" ">>, <<"a">>, <<" ", "b", " ">>}

\* inputText as the result of split('\n'): at least one line.
Texts == UNION {[1..k -> InputLines] : k \in 1..MaxLines}

RECURSIVE TrimStart(_)
TrimStart(line) ==
    IF line # <<>> /\ Head(line) = " " THEN TrimStart(Tail(line)) ELSE line

RECURSIVE TrimEnd(_)
TrimEnd(line) ==
    IF line # <<>> /\ line[Len(line)] = " "
    THEN TrimEnd(SubSeq(line, 1, Len(line) - 1))
    ELSE line

\* String.prototype.trim.
Trim(line) == TrimEnd(TrimStart(line))

NonEmpty(name) == Len(name) > 0

\* handleProcess: the trimmed, non-empty lines.
Names(text) == SelectSeq([i \in 1..Len(text) |-> Trim(text[i])], NonEmpty)

\* A check that lets a single name through.
RejectedOnlyEmpty(names) == Len(names) < 1

\* handleProcess: `if (names.length < 2)`.
Rejected(names) == Len(names) < 2

\* [numbers[i], numbers[j]] = [numbers[j], numbers[i]], i and j 0-based.
Swap(arr, i, j) ==
    [k \in 1..Len(arr) |-> IF k = i + 1 THEN arr[j + 1]
                           ELSE IF k = j + 1 THEN arr[i + 1]
                           ELSE arr[k]]

\* The values of Math.floor(Math.random() * (i + 1)) for i = n-1 .. 1.
ShuffleChoices(n) == {js \in [1..(n - 1) -> 0..(n - 1)] : \A i \in 1..(n - 1) : js[i] <= i}

\* Fisher-Yates from index i down to 1 with the random choices js.
RECURSIVE FisherYates(_, _, _)
FisherYates(arr, i, js) ==
    IF i > 0 THEN FisherYates(Swap(arr, i, js[i]), i - 1, js) ELSE arr

RECURSIVE InsertByNumber(_, _)
InsertByNumber(p, sorted) ==
    IF sorted = <<>> THEN <<p>>
    ELSE IF p.number - Head(sorted).number < 0
         THEN <<p>> \o sorted
         ELSE <<Head(sorted)>> \o InsertByNumber(p, Tail(sorted))

\* .sort((a, b) => a.number - b.number)
RECURSIVE SortByNumber(_)
SortByNumber(ps) ==
    IF ps = <<>> THEN <<>> ELSE InsertByNumber(Head(ps), SortByNumber(Tail(ps)))

\* Assignment that skips the final sort.
AssignPlayersUnsorted(names, js) ==
    LET n == Len(names)
        numbers == FisherYates([i \in 1..n |-> i], n - 1, js)
    IN  [index \in 1..n |-> Player(names[index], numbers[index])]

\* handleProcess: shuffle 1..n, pair names with numbers, sort by number.
AssignPlayers(names, js) ==
    LET n == Len(names)
        numbers == FisherYates([i \in 1..n |-> i], n - 1, js)
    IN  SortByNumber([index \in 1..n |-> Player(names[index], numbers[index])])

\* Runner.stop(runner).
RunnerStop(running) == FALSE

\* Cleanup that leaves the requested animation frame in place.
CancelFrameSkipped(requested) == requested

\* if (requestRef.current) cancelAnimationFrame(requestRef.current)
CancelFrame(requested) == FALSE

AppInit ==
    /\ stage = "INPUT"
    /\ players = <<>>
    /\ inputText = << <<>> >>
    /\ assignedPlayers = <<>>
    /\ step = 1
    /\ alerted = FALSE
    /\ exitedWith = NoExit
    /\ initialPlayers = <<>>
    /\ remainingPlayers = <<>>
    /\ fixtures = <<>>
    /\ currentHome = NULL
    /\ lastDrawnNumber = NULL
    /\ isDrawing = FALSE
    /\ drawHistory = <<>>
    /\ pending = <<>>
    /\ effects = {}
    /\ timers = {}
    /\ dueTimers = {}
    /\ interval = {}
    /\ bodiesRef = {}
    /\ worldBodies = {}
    /\ gravityY = 1
    /\ isDrawingRef = FALSE
    /\ drawLog = <<>>
    /\ ejectLog = <<>>
    /\ ticksQueued = 0
    /\ ticksCommitted = 0
    /\ emptyDraws = 0
    /\ plan = NoPlan
    /\ runnerOn = FALSE
    /\ rafPending = FALSE
    /\ lastStep = NoStep
    /\ painted = {}

\* onChange of the textarea, shown in step 1.
SetInputText ==
    /\ stage = "INPUT" /\ step = 1
    /\ \E text \in Texts : inputText' = text
    /\ UNCHANGED <<initialPlayers, drawState, isDrawing, reactVars, timerVars, machineVars,
                   historyVars, plan, stage, players, assignedPlayers, step, alerted, exitedWith,
                   loopVars>>

\* "Assign Lottery Numbers", shown in step 1.
HandleProcess ==
    /\ stage = "INPUT" /\ step = 1
    /\ LET names == Names(inputText)
       IN  IF Rejected(names)
           THEN /\ alerted' = TRUE
                /\ UNCHANGED <<assignedPlayers, step>>
           ELSE /\ \E js \in ShuffleChoices(Len(names)) :
                       assignedPlayers' = AssignPlayers(names, js)
                /\ step' = 2
                /\ UNCHANGED alerted
    /\ UNCHANGED <<initialPlayers, drawState, isDrawing, reactVars, timerVars, machineVars,
                   historyVars, plan, stage, players, inputText, exitedWith, loopVars>>

\* InputStage.handleReset ("Back to Edit"), shown in step 2.
InputReset ==
    /\ stage = "INPUT" /\ step = 2
    /\ assignedPlayers' = <<>>
    /\ step' = 1
    /\ UNCHANGED <<initialPlayers, drawState, isDrawing, reactVars, timerVars, machineVars,
                   historyVars, plan, stage, players, inputText, alerted, exitedWith,
                   loopVars>>

\* "Start The Draw", shown in step 2: App.handleInputComplete(assignedPlayers);
\* InputStage unmounts, DrawStage and LotteryMachine mount and run their effects.
HandleInputComplete ==
    /\ stage = "INPUT" /\ step = 2
    /\ players' = assignedPlayers
    /\ stage' = "DRAW"
    /\ inputText' = <<>>
    /\ assignedPlayers' = <<>>
    /\ step' = 1
    /\ exitedWith' = NoExit
    /\ UNCHANGED alerted
    /\ initialPlayers' = Numbers(assignedPlayers)
    /\ remainingPlayers' = Numbers(assignedPlayers)
    /\ fixtures' = <<>>
    /\ currentHome' = NULL
    /\ lastDrawnNumber' = NULL
    /\ isDrawing' = FALSE
    /\ drawHistory' = <<>>
    /\ pending' = <<>>
    /\ effects' = {}
    /\ timers' = timers
    /\ dueTimers' = dueTimers
    /\ interval' = {}
    /\ bodiesRef' = Range(Numbers(assignedPlayers))
    /\ worldBodies' = Range(Numbers(assignedPlayers))
    /\ gravityY' = 1
    /\ isDrawingRef' = FALSE
    /\ drawLog' = <<>>
    /\ ejectLog' = <<>>
    /\ ticksQueued' = 0
    /\ ticksCommitted' = 0
    /\ emptyDraws' = 0
    /\ plan' = MatchesNeeded(Len(assignedPlayers))
    /\ runnerOn' = TRUE
    /\ rafPending' = TRUE
    /\ lastStep' = NoStep
    /\ painted' = Range(Numbers(assignedPlayers))

\* "Exit": App.handleReset. On confirm DrawStage and LotteryMachine unmount and
\* their effect cleanups run; queued state updates die with the component.
ExitStage ==
    /\ stage = "DRAW"
    /\ effects = {}
    /\ \E confirmed \in BOOLEAN :
        IF confirmed
        THEN /\ players' = <<>>
             /\ stage' = "INPUT"
             /\ inputText' = << <<>> >>
             /\ assignedPlayers' = <<>>
             /\ step' = 1
             /\ exitedWith' = [exited |-> TRUE, armed |-> timers # {}, due |-> dueTimers # {},
                               drawing |-> isDrawing]
             /\ UNCHANGED alerted
             /\ initialPlayers' = <<>>
             /\ remainingPlayers' = <<>>
             /\ fixtures' = <<>>
             /\ currentHome' = NULL
             /\ lastDrawnNumber' = NULL
             /\ isDrawing' = FALSE
             /\ drawHistory' = <<>>
             /\ pending' = <<>>
             /\ effects' = {}
             /\ timers' = IntervalCleanup(timers, interval)
             /\ dueTimers' = dueTimers \cap timers'
             /\ interval' = {}
             /\ bodiesRef' = {}
             /\ worldBodies' = {}
             /\ gravityY' = 1
             /\ isDrawingRef' = FALSE
             /\ drawLog' = <<>>
             /\ ejectLog' = <<>>
             /\ ticksQueued' = 0
             /\ ticksCommitted' = 0
             /\ emptyDraws' = 0
             /\ plan' = NoPlan
             /\ runnerOn' = RunnerStop(runnerOn)
             /\ rafPending' = CancelFrame(rafPending)
             /\ lastStep' = NoStep
             /\ painted' = {}
        ELSE UNCHANGED vars

\* One engine update of the runner: the beforeUpdate handler, then gravity.
Step ==
    /\ runnerOn
    /\ lastStep' = [stepped |-> TRUE, flag |-> isDrawing, gravityY |-> gravityY,
                    handler |-> isDrawingRef,
                    attracted |-> IF isDrawingRef THEN bodiesRef ELSE {},
                    bodies |-> worldBodies]
    /\ UNCHANGED <<initialPlayers, drawState, isDrawing, reactVars, timerVars, machineVars,
                   historyVars, plan, appVars, runnerOn, rafPending, painted>>

\* One animation frame of render: paint the balls of the world and request
\* the next frame, unless the canvas is gone.
Frame ==
    /\ rafPending
    /\ IF stage = "DRAW"
       THEN /\ painted' = worldBodies
            /\ rafPending' = TRUE
       ELSE /\ rafPending' = FALSE
            /\ UNCHANGED painted
    /\ UNCHANGED <<initialPlayers, drawState, isDrawing, reactVars, timerVars, machineVars,
                   historyVars, plan, appVars, runnerOn, lastStep>>

AppNext ==
    \/ SetInputText \/ HandleProcess \/ InputReset \/ HandleInputComplete \/ ExitStage
    \/ ToggleDraw \/ Elapse \/ Tick \/ Commit \/ FlushEffects
    \/ Step \/ Frame

AppSpec == AppInit /\ [][AppNext]_vars


----------------------------------------------------------------------------
\* C14: at every engine update the regime is the one of the drawing-active
\* flag for every body present: gravity on and no attractor when the flag is
\* false, gravity off and the attractor on that body when it is true; so the
\* first update after either change of the flag already applies the new regime.
C14_RegimeSwitch ==
    lastStep.stepped =>
        \A b \in lastStep.bodies :
            IF lastStep.flag
            THEN lastStep.gravityY = 0 /\ b \in lastStep.attracted
            ELSE lastStep.gravityY = 1 /\ b \notin lastStep.attracted

\* An engine update after a pause, with balls still in the machine.
C14_Witness ==
    /\ lastStep.stepped /\ ~lastStep.flag
    /\ lastStep.bodies # {}
    /\ lastStep.bodies # Range(initialPlayers)
    /\ ~isDrawing /\ drawLog # <<>>

\* C15: once the draw stage is exited nothing of it is scheduled any more: no
\* interval is armed or due, the runner is stopped and no frame is requested,
\* so no tick, engine update or frame can fire, whatever was scheduled at exit.
C15_Teardown ==
    stage = "INPUT" =>
        /\ timers = {} /\ dueTimers = {}
        /\ ~runnerOn /\ ~rafPending
        /\ ~ENABLED Tick /\ ~ENABLED Step /\ ~ENABLED Frame

\* The stage was exited while drawing, with a tick already due.
C15_Witness ==
    /\ stage = "INPUT"
    /\ exitedWith.exited /\ exitedWith.due /\ exitedWith.drawing

\* C16: the draw stage is entered only with N >= 2 entrants numbered exactly
\* 1..N in ascending order; handleProcess on fewer than 2 non-empty names leaves
\* the input stage at step 1 with no players assigned.
C16_Entered ==
    /\ stage = "DRAW" =>
          /\ totalPlayers >= 2
          /\ Len(players) = totalPlayers
          /\ \A i \in 1..totalPlayers : players[i].number = i /\ initialPlayers[i] = i
    /\ (stage = "INPUT" /\ step = 1) => assignedPlayers = <<>>
C16_RejectStep ==
    (stage = "INPUT" /\ step = 1 /\ Len(Names(inputText)) < 2 /\ inputText' = inputText) =>
        (stage' = "INPUT" /\ step' = 1 /\ assignedPlayers' = <<>> /\ players' = <<>>)
C16_EntryPrecondition == []C16_Entered /\ [][C16_RejectStep]_vars

\* The draw stage was entered with three entrants after an input was rejected.
C16_Witness ==
    /\ stage = "DRAW" /\ alerted
    /\ totalPlayers = 3
    /\ drawLog = <<>>


----------------------------------------------------------------------------
\* C17: a draw on a non-empty pool selects a member of the pool as it is just
\* before the call, and its commit removes exactly that entrant, keeping every
\* other member in place; whenever a tick is due every member of the pool,
\* whatever its position, is a possible selection.
C17_SelectStep ==
    /\ drawLog' # drawLog =>
          /\ Len(drawLog') = Len(drawLog) + 1
          /\ drawLog'[Len(drawLog')] \in Range(remainingPlayers)
    /\ remainingPlayers' # remainingPlayers =>
          \E i \in 1..Len(remainingPlayers) :
              /\ remainingPlayers' = SpliceOut(remainingPlayers, i - 1)
              /\ remainingPlayers[i] = drawLog[Len(drawLog)]
              /\ lastDrawnNumber' = remainingPlayers[i]
              /\ Range(remainingPlayers') = Range(remainingPlayers) \ {remainingPlayers[i]}
C17_AnyMember ==
    dueTimers # {} =>
        \A p \in Range(remainingPlayers) : ENABLED (Tick /\ drawLog' = Append(drawLog, p))
C17_Selection == [][C17_SelectStep]_vars /\ []C17_AnyMember

\* The entrant stored last in a pool of at least three has been drawn and
\* removed, the others are retained.
C17_Witness ==
    /\ Len(drawLog) = 1
    /\ drawLog[1] = totalPlayers
    /\ totalPlayers >= 3
    /\ remainingPlayers = SubSeq(initialPlayers, 1, totalPlayers - 1)


----------------------------------------------------------------------------
\* C18: while the drawing-active flag is false no draw occurs and pool,
\* fixtures, pending home, last-drawn number and history stay unchanged; a step
\* that changes the flag changes nothing else of the draw state; the draw
\* state changes only when a draw made while drawing is active is committed.
C18_FrameStep ==
    /\ ~isDrawing => (drawLog' = drawLog /\ UNCHANGED drawState)
    /\ isDrawing' # isDrawing => (drawLog' = drawLog /\ UNCHANGED drawState)
    /\ ~(UNCHANGED drawState) =>
          /\ isDrawing /\ isDrawing'
          /\ ticksQueued = 1
          /\ Len(remainingPlayers) + Len(drawLog) = totalPlayers + 1
          /\ lastDrawnNumber' = drawLog[Len(drawLog)]
----------------------------------------------------------------------------
\* C19: with an empty pool no step changes the draw state, toggleDraw changes
\* nothing, the flag never turns on again and is false once React is idle;
\* with a non-empty pool and React idle the start control turns drawing on, the
\* interval is then armed, and a due tick makes a draw.
C19_TerminalStep ==
    Len(remainingPlayers) = 0 =>
        /\ UNCHANGED drawState
        /\ drawLog' = drawLog
        /\ isDrawing' => isDrawing
        /\ ToggleDraw => UNCHANGED vars
C19_Live ==
    /\ (Len(remainingPlayers) = 0 /\ pending = <<>> /\ effects = {}) =>
          (~isDrawing /\ timers = {} /\ ENABLED ToggleDraw)
    /\ (Len(remainingPlayers) > 0 /\ pending = <<>> /\ effects = {}) =>
          /\ ~isDrawing => ENABLED (ToggleDraw /\ isDrawing')
          /\ isDrawing => (timers # {} /\ (dueTimers # {} \/ ENABLED Elapse))
    /\ dueTimers # {} =>
          /\ Len(remainingPlayers) > 0
          /\ ENABLED (Tick /\ Len(drawLog') = Len(drawLog) + 1)
C19_Terminality == [][C19_TerminalStep]_vars /\ []C19_Live

\* The draw is over, every entrant is placed and the flag has settled.
C19_Witness ==
    /\ Len(remainingPlayers) = 0
    /\ Len(drawLog) = totalPlayers
    /\ pending = <<>> /\ effects = {}
    /\ ~isDrawing


----------------------------------------------------------------------------
\* The position of the entry number p in the draw log.
DrawnAt(p) == CHOOSE k \in 1..Len(drawLog) : drawLog[k] = p

\* C20: every step leaves the fixture list as it is or puts exactly one new
\* fixture at its head, keeping every earlier fixture, home and away, in place;
\* the list is ordered most recently constructed first.
C20_FixtureStep ==
    \/ fixtures' = fixtures
    \/ /\ Len(fixtures') = Len(fixtures) + 1
       /\ Tail(fixtures') = fixtures
       /\ lastDrawnNumber' \in {Head(fixtures').home, Head(fixtures').away}
C20_MostRecentFirst ==
    \A i \in 1..(Len(fixtures) - 1) :
        DrawnAt(fixtures[i].home) > DrawnAt(fixtures[i + 1].home)
C20_AppendOnly == [][C20_FixtureStep]_vars /\ []C20_MostRecentFirst

\* Three fixtures, a bye on top of two matches.
C20_Witness ==
    /\ Len(fixtures) = 3
    /\ fixtures[1].away = NULL
    /\ fixtures[2].away # NULL
    /\ fixtures[3].away # NULL


----------------------------------------------------------------------------
\* C21: at every engine update exactly one regime is active: gravity.y is 1
\* and the beforeUpdate handler returns at once, or gravity.y is 0 and the
\* handler applies the attractor to every ball of the map; this also holds
\* for an update that runs after the flag changed and before the sync effect.
C21_ExclusiveRegimes ==
    /\ lastStep.stepped =>
          \/ /\ lastStep.gravityY = 1
             /\ ~lastStep.handler
             /\ lastStep.attracted = {}
          \/ /\ lastStep.gravityY = 0
             /\ lastStep.handler
             /\ lastStep.attracted = lastStep.bodies
    /\ runnerOn => gravityY = (IF isDrawingRef THEN 0 ELSE 1)

\* An engine update between the commit that cleared the flag and the sync
\* effect of that commit.
C21_Witness ==
    /\ lastStep.stepped
    /\ ~lastStep.flag /\ lastStep.handler /\ lastStep.gravityY = 0
    /\ "sync" \in effects


----------------------------------------------------------------------------
\* C22: whenever a home entrant is waiting the pool is not empty, fewer
\* matches than matchesNeeded exist and no bye has been created; the next
\* committed draw pairs the waiting entrant with the entrant drawn.
C22_HomeWaiting ==
    currentHome # NULL =>
        /\ Len(remainingPlayers) > 0
        /\ MatchesSoFar(fixtures) < matchesNeeded
        /\ ByesSoFar(fixtures) = 0
C22_PairStep ==
    (currentHome # NULL /\ remainingPlayers' # remainingPlayers) =>
        /\ currentHome' = NULL
        /\ fixtures' = <<[home |-> currentHome, away |-> lastDrawnNumber']>> \o fixtures
C22_NeverStranded == []C22_HomeWaiting /\ [][C22_PairStep]_vars

\* A home entrant waits for the last match of the quota, with byes to follow.
C22_Witness ==
    /\ currentHome # NULL
    /\ MatchesSoFar(fixtures) = matchesNeeded - 1
    /\ matchesNeeded >= 2
    /\ ByesNeeded(totalPlayers) >= 1

\* Fixture i is a bye.
IsBye(fix, i) == fix[i].away = NULL

\* C23: in the fixture list, most recent first, every bye lies before every
\* match; once a bye exists no entrant waits as home, and no later step sets a
\* waiting home or adds a match.
C23_ByesAfterMatches ==
    /\ \A i \in 1..Len(fixtures) : \A j \in (i + 1)..Len(fixtures) :
          IsBye(fixtures, j) => IsBye(fixtures, i)
    /\ ByesSoFar(fixtures) > 0 =>
          /\ currentHome = NULL
          /\ Cardinality({i \in 1..Len(fixtures) : ~IsBye(fixtures, i)}) = matchesNeeded
C23_PhaseStep ==
    ByesSoFar(fixtures) > 0 =>
        /\ currentHome' = NULL
        /\ Cardinality({i \in 1..Len(fixtures') : ~IsBye(fixtures', i)})
             = Cardinality({i \in 1..Len(fixtures) : ~IsBye(fixtures, i)})
        /\ ByesSoFar(fixtures') >= ByesSoFar(fixtures)
C23_PhaseOrder == []C23_ByesAfterMatches /\ [][C23_PhaseStep]_vars

\* Two byes on top of a match: a draw was made inside the bye phase.
C23_Witness ==
    /\ Len(fixtures) >= 3
    /\ IsBye(fixtures, 1) /\ IsBye(fixtures, 2)
    /\ ~IsBye(fixtures, Len(fixtures))

====
